---- MODULE Spec2Model ----
(***************************************************************************)
(* Android Package Puller (main.go): init, flag parsing, device and        *)
(* package selection, package-manager output parsing, numeric input        *)
(* validation and the pull.  Go strings are sequences of one-character     *)
(* strings; a Go slice index i is the TLA+ index i+1.                      *)
(***************************************************************************)
EXTENDS Integers, Sequences, FiniteSets, TLC

VARIABLES
    pc,            \* position of main: next stage to run, or "exited"
    osArgs,        \* os.Args, program name first
    packageName,   \* var packageName
    deviceSerial,  \* var deviceSerial
    devices,       \* result of adb.Devices()
    device,        \* Go index of the resolved device in devices, Nil if none
    data,          \* output of "pm list packages -f"
    pkgs,          \* result of getPackageList
    pkg,           \* Go index of the resolved package in pkgs, Nil if none
    stdin,         \* the reads performed on os.Stdin, in order
    prompts,       \* the [min, max] ranges readInputNumber prompted with, in order
    index,         \* last value returned by readInputNumber
    called,        \* the devices "pm list packages -f" was run on, in order
    out,           \* lines printed to stdout/stderr, in order, as tags
    pulled,        \* the device.Pull calls made, in order
    stages,        \* stages of main executed, in order
    exitCode       \* process exit status, Running while the process runs

vars == <<pc, osArgs, packageName, deviceSerial, devices, device, data, pkgs,
          pkg, stdin, prompts, index, called, out, pulled, stages,
          exitCode>>

Nil == -1
Running == -1

----------------------------------------------------------------------------
(* Bounds of the model *)
MaxDevices == 2
MaxLines == 2
MaxInputLen == 2
MaxCand == 5
MaxFlagArgs == 2
MaxParseLines == 2

----------------------------------------------------------------------------
(* package strings *)

Digits == <<"0", "1", "2", "3", "4", "5", "6", "7", "8", "9">>

IsDigit(c) == \E d \in 1..10 : Digits[d] = c

DigitVal(c) == (CHOOSE d \in 1..10 : Digits[d] = c) - 1

\* unicode.IsSpace over the characters the model uses
IsSpace(c) == c \in {" ", "\t", "\n", "\r"}

Drop(s, n) == SubSeq(s, n + 1, Len(s))

RECURSIVE TrimLeft(_)
TrimLeft(s) ==
    IF s # <<>> /\ IsSpace(Head(s)) THEN TrimLeft(Tail(s)) ELSE s

RECURSIVE TrimRight(_)
TrimRight(s) ==
    IF s # <<>> /\ IsSpace(s[Len(s)])
    THEN TrimRight(SubSeq(s, 1, Len(s) - 1))
    ELSE s

TrimSpace(s) == TrimRight(TrimLeft(s))

HasPrefix(s, p) == Len(s) >= Len(p) /\ SubSeq(s, 1, Len(p)) = p

\* strings.Index for a one-character separator: Go index, -1 if absent
RECURSIVE IndexFrom(_, _, _)
IndexFrom(s, c, i) ==
    IF i > Len(s) THEN -1
    ELSE IF s[i] = c THEN i - 1
    ELSE IndexFrom(s, c, i + 1)

IndexByte(s, c) == IndexFrom(s, c, 1)

\* strings.Split(s, sep) for a one-character separator
RECURSIVE Split(_, _)
Split(s, sep) ==
    LET i == IndexByte(s, sep)
    IN  IF i < 0 THEN <<s>>
        ELSE <<SubSeq(s, 1, i)>> \o Split(Drop(s, i + 1), sep)

\* strings.SplitN(s, sep, 2) for a one-character separator
SplitN2(s, sep) ==
    LET i == IndexByte(s, sep)
    IN  IF i < 0 THEN <<s>>
        ELSE <<SubSeq(s, 1, i), Drop(s, i + 1)>>

----------------------------------------------------------------------------
(* package strconv *)

\* width of int on the build modelled
intSize == 64

\* decimal digits of the largest int, 1<<(intSize-1) - 1
MaxIntDigits ==
    <<"9", "2", "2", "3", "3", "7", "2", "0", "3", "6", "8", "5", "4", "7",
      "7", "5", "8", "0", "7">>

\* Magnitudes of 10^9 and more are represented by BigInt: the model checker's
\* integers are 32 bits wide and every range the program prompts with lies
\* far below BigInt, so such values compare like the exact ones.
BigInt == 1000000000

RECURSIVE StripZeros(_)
StripZeros(ds) ==
    IF Len(ds) > 1 /\ Head(ds) = "0" THEN StripZeros(Tail(ds)) ELSE ds

RECURSIVE DigitsLess(_, _)
\* a < b for digit strings of the same length
DigitsLess(a, b) ==
    IF a = <<>> THEN FALSE
    ELSE IF Head(a) # Head(b) THEN DigitVal(Head(a)) < DigitVal(Head(b))
    ELSE DigitsLess(Tail(a), Tail(b))

\* the magnitude ds exceeds limit (both without leading zeros)
DigitsExceed(ds, limit) ==
    \/ Len(ds) > Len(limit)
    \/ Len(ds) = Len(limit) /\ DigitsLess(limit, ds)

RECURSIVE Horner(_, _)
\* n = n*10 + int(ch) over the digits
Horner(ds, n) ==
    IF ds = <<>> THEN n ELSE Horner(Tail(ds), n * 10 + DigitVal(Head(ds)))

Magnitude(ds) ==
    LET z == StripZeros(ds)
    IN  IF Len(z) > 9 THEN BigInt ELSE Horner(z, 0)

\* strconv.Atoi: [n, err], err one of "nil", "syntax", "range"
Atoi(s) ==
    IF s = <<>> THEN [n |-> 0, err |-> "syntax"]
    ELSE
      LET neg == s[1] = "-"
          ds  == IF s[1] \in {"-", "+"} THEN Tail(s) ELSE s
      IN  IF ds = <<>> \/ \E i \in 1..Len(ds) : ~IsDigit(ds[i])
          THEN [n |-> 0, err |-> "syntax"]
          ELSE IF DigitsExceed(StripZeros(ds), MaxIntDigits)
                  /\ ~(neg /\ StripZeros(ds) =
                         [MaxIntDigits EXCEPT ![Len(MaxIntDigits)] = "8"])
          THEN [n |-> 0, err |-> "range"]
          ELSE [n |-> IF neg THEN -Magnitude(ds) ELSE Magnitude(ds),
                err |-> "nil"]

----------------------------------------------------------------------------
(* main.go *)

Str_package == <<"p", "a", "c", "k", "a", "g", "e", ":">>

Str_apk == <<".", "a", "p", "k">>

\* type Package
Package(name, path) == [Name |-> name, Path |-> path]

\* n lines of output with the same tag
RECURSIVE Repeat(_, _)
Repeat(tag, n) == IF n = 0 THEN <<>> ELSE <<tag>> \o Repeat(tag, n - 1)

\* readInputNumber without the test against max
readInputNumber_NoMax(rd, min, max) ==
    LET input == IF ~rd.err THEN TrimSpace(rd.input) ELSE rd.input
        a     == Atoi(input)
    IN  IF rd.err \/ Len(input) = 0
        THEN [index |-> -1, err |-> "Input cancelled"]
        ELSE IF a.err # "nil"
        THEN [index |-> -1, err |-> "Invalid input"]
        ELSE IF a.n < min
        THEN [index |-> -1, err |-> "Input out of range"]
        ELSE [index |-> a.n, err |-> "nil"]

\* readInputNumber without the test against min
readInputNumber_NoMin(rd, min, max) ==
    LET input == IF ~rd.err THEN TrimSpace(rd.input) ELSE rd.input
        a     == Atoi(input)
    IN  IF rd.err \/ Len(input) = 0
        THEN [index |-> -1, err |-> "Input cancelled"]
        ELSE IF a.err # "nil"
        THEN [index |-> -1, err |-> "Invalid input"]
        ELSE IF a.n > max
        THEN [index |-> -1, err |-> "Input out of range"]
        ELSE [index |-> a.n, err |-> "nil"]

\* readInputNumber on the result rd of reader.ReadString: [index, err]
readInputNumber(rd, min, max) ==
    LET input == IF ~rd.err THEN TrimSpace(rd.input) ELSE rd.input
        a     == Atoi(input)
    IN  IF rd.err \/ Len(input) = 0
        THEN [index |-> -1, err |-> "Input cancelled"]
        ELSE IF a.err # "nil"
        THEN [index |-> -1, err |-> "Invalid input"]
        ELSE IF a.n < min \/ a.n > max
        THEN [index |-> -1, err |-> "Input out of range"]
        ELSE [index |-> a.n, err |-> "nil"]

\* the loop of getPackageList with the two parts of a line exchanged
RECURSIVE parseLines_Swapped(_, _, _)
parseLines_Swapped(lines, packages, bad) ==
    IF lines = <<>> THEN [packages |-> packages, bad |-> bad]
    ELSE
      LET line  == TrimSpace(Head(lines))
          parts == SplitN2(Drop(line, 8), "=")
      IN  IF ~HasPrefix(line, Str_package)
          THEN parseLines_Swapped(Tail(lines), packages, bad)
          ELSE IF Len(parts) # 2
          THEN parseLines_Swapped(Tail(lines), packages, Append(bad, line))
          ELSE parseLines_Swapped(Tail(lines),
                          Append(packages, Package(parts[1], parts[2])), bad)

\* the loop of getPackageList over the lines: packages appended and the
\* lines reported as bad, in order
RECURSIVE parseLines(_, _, _)
parseLines(lines, packages, bad) ==
    IF lines = <<>> THEN [packages |-> packages, bad |-> bad]
    ELSE
      LET line  == TrimSpace(Head(lines))
          parts == SplitN2(Drop(line, 8), "=")
      IN  IF ~HasPrefix(line, Str_package)
          THEN parseLines(Tail(lines), packages, bad)
          ELSE IF Len(parts) # 2
          THEN parseLines(Tail(lines), packages, Append(bad, line))
          ELSE parseLines(Tail(lines),
                          Append(packages, Package(parts[2], parts[1])), bad)

\* getPackageList without the test for an empty list
getPackageList_NoEmptyTest(call) ==
    IF call.err
    THEN [packages |-> <<>>, bad |-> <<>>,
          out |-> <<"Failed list root", "Failed to retrieve packages">>,
          err |-> "Failed to retrieve packages"]
    ELSE
      LET r == parseLines(Split(call.data, "\n"), <<>>, <<>>)
          w == Repeat("Bad package manager response", Len(r.bad))
      IN  [packages |-> r.packages, bad |-> r.bad, out |-> w, err |-> "nil"]

\* getPackageList on the result call of cmd.Call(): [packages, bad, out, err]
getPackageList(call) ==
    IF call.err
    THEN [packages |-> <<>>, bad |-> <<>>,
          out |-> <<"Failed list root", "Failed to retrieve packages">>,
          err |-> "Failed to retrieve packages"]
    ELSE
      LET r == parseLines(Split(call.data, "\n"), <<>>, <<>>)
          w == Repeat("Bad package manager response", Len(r.bad))
      IN  IF Len(r.packages) = 0
          THEN [packages |-> <<>>, bad |-> r.bad,
                out |-> w \o <<"No packages found">>,
                err |-> "No packages found"]
          ELSE [packages |-> r.packages, bad |-> r.bad, out |-> w,
                err |-> "nil"]

\* Go index of the first element of s from position i on whose field equals
\* value, Nil if none
RECURSIVE FirstFrom(_, _, _, _)
FirstFrom(s, field, value, i) ==
    IF i > Len(s) THEN Nil
    ELSE IF s[i][field] = value THEN i - 1
    ELSE FirstFrom(s, field, value, i + 1)

\* the numbered listing of the candidates, one line each
Listing(s) == Repeat("item", Len(s))

\* getDevice without the shortcut for a single device
getDevice_NoShortcut(devs, serial, rd) ==
    LET found    == IF Len(serial) > 0
                    THEN FirstFrom(devs, "Serial", serial, 1) ELSE Nil
        warn     == IF Len(serial) > 0
                    THEN <<"Warning: Could not locate device.">> ELSE <<>>
        r        == readInputNumber(rd, 0, Len(devs) - 1)
    IN  IF found # Nil
        THEN [device |-> found, err |-> "nil", out |-> <<>>,
              reads |-> <<>>, prompts |-> <<>>]
        ELSE [device |-> IF r.err = "nil" THEN r.index ELSE Nil,
              err |-> r.err,
              out |-> warn \o <<"Devices:">> \o Listing(devs)
                        \o <<"Which device?">>
                        \o (IF r.err = "nil" THEN <<>> ELSE <<r.err>>),
              reads |-> <<rd>>,
              prompts |-> <<[min |-> 0, max |-> Len(devs) - 1]>>]

\* getDevice failing for an unmatched serial, as getPackage does for a name
getDevice_FailUnmatched(devs, serial, rd) ==
    LET found    == FirstFrom(devs, "Serial", serial, 1)
        r        == readInputNumber(rd, 0, Len(devs) - 1)
    IN  IF Len(serial) > 0
        THEN IF found # Nil
             THEN [device |-> found, err |-> "nil", out |-> <<>>,
                   reads |-> <<>>, prompts |-> <<>>]
             ELSE [device |-> Nil, err |-> "Could not locate device",
                   out |-> <<"Warning: Could not locate device.">>,
                   reads |-> <<>>, prompts |-> <<>>]
        ELSE IF Len(devs) = 1
        THEN [device |-> 0, err |-> "nil", out |-> <<"Device:">>,
              reads |-> <<>>, prompts |-> <<>>]
        ELSE [device |-> IF r.err = "nil" THEN r.index ELSE Nil,
              err |-> r.err,
              out |-> <<"Devices:">> \o Listing(devs) \o <<"Which device?">>
                        \o (IF r.err = "nil" THEN <<>> ELSE <<r.err>>),
              reads |-> <<rd>>,
              prompts |-> <<[min |-> 0, max |-> Len(devs) - 1]>>]

\* getDevice: [device, err, out, reads, prompts]
getDevice(devs, serial, rd) ==
    LET found    == IF Len(serial) > 0
                    THEN FirstFrom(devs, "Serial", serial, 1) ELSE Nil
        warn     == IF Len(serial) > 0
                    THEN <<"Warning: Could not locate device.">> ELSE <<>>
        r        == readInputNumber(rd, 0, Len(devs) - 1)
    IN  IF found # Nil
        THEN [device |-> found, err |-> "nil", out |-> <<>>,
              reads |-> <<>>, prompts |-> <<>>]
        ELSE IF Len(devs) = 1
        THEN [device |-> 0, err |-> "nil", out |-> warn \o <<"Device:">>,
              reads |-> <<>>, prompts |-> <<>>]
        ELSE [device |-> IF r.err = "nil" THEN r.index ELSE Nil,
              err |-> r.err,
              out |-> warn \o <<"Devices:">> \o Listing(devs)
                        \o <<"Which device?">>
                        \o (IF r.err = "nil" THEN <<>> ELSE <<r.err>>),
              reads |-> <<rd>>,
              prompts |-> <<[min |-> 0, max |-> Len(devs) - 1]>>]

\* getPackage prompting after an unmatched name, as getDevice does
getPackage_Fallback(ps, name, rd) ==
    LET found    == IF Len(name) > 0
                    THEN FirstFrom(ps, "Name", name, 1) ELSE Nil
        r        == readInputNumber(rd, 0, Len(ps) - 1)
    IN  IF found # Nil
        THEN [pkg |-> found, err |-> "nil", out |-> <<>>,
              reads |-> <<>>, prompts |-> <<>>]
        ELSE [pkg |-> IF r.err = "nil" THEN r.index ELSE Nil,
              err |-> r.err,
              out |-> <<"Packages:">> \o Listing(ps) \o <<"Which package?">>
                        \o (IF r.err = "nil" THEN <<>> ELSE <<r.err>>),
              reads |-> <<rd>>,
              prompts |-> <<[min |-> 0, max |-> Len(ps) - 1]>>]

\* getPackage: [pkg, err, out, reads, prompts]
getPackage(ps, name, rd) ==
    LET found    == FirstFrom(ps, "Name", name, 1)
        r        == readInputNumber(rd, 0, Len(ps) - 1)
    IN  IF Len(name) > 0
        THEN IF found # Nil
             THEN [pkg |-> found, err |-> "nil", out |-> <<>>,
                   reads |-> <<>>, prompts |-> <<>>]
             ELSE [pkg |-> Nil, err |-> "Could not locate package",
                   out |-> <<"Could not locate package">>,
                   reads |-> <<>>, prompts |-> <<>>]
        ELSE [pkg |-> IF r.err = "nil" THEN r.index ELSE Nil,
              err |-> r.err,
              out |-> <<"Packages:">> \o Listing(ps) \o <<"Which package?">>
                        \o (IF r.err = "nil" THEN <<>> ELSE <<r.err>>),
              reads |-> <<rd>>,
              prompts |-> <<[min |-> 0, max |-> Len(ps) - 1]>>]

----------------------------------------------------------------------------
(* package flag, as main.go uses it: two string flags on flag.CommandLine *)

Str_flagPackage == <<"p", "a", "c", "k", "a", "g", "e">>

Str_flagDevice == <<"d", "e", "v", "i", "c", "e">>

Str_help == <<"h", "e", "l", "p">>

Str_h == <<"h">>

\* FlagSet.Parse over the arguments a: parseOne repeated until a non-flag
\* argument, the terminator "--", the end of the arguments or an error
RECURSIVE flagParse(_, _, _)
flagParse(a, pn, ds) ==
    LET done == [packageName |-> pn, deviceSerial |-> ds, args |-> a,
                 err |-> "nil"]
        fail(e) == [packageName |-> pn, deviceSerial |-> ds, args |-> a,
                    err |-> e]
    IN
    IF a = <<>> THEN done
    ELSE
      LET s == Head(a)
      IN  IF Len(s) < 2 \/ s[1] # "-" THEN done
          ELSE
            LET numMinuses == IF s[2] = "-" THEN 2 ELSE 1
                nv         == Drop(s, numMinuses)
                eq         == IndexFrom(nv, "=", 2)
                hasValue   == eq >= 0
                name       == IF hasValue THEN SubSeq(nv, 1, eq) ELSE nv
                takeNext   == ~hasValue /\ Len(a) > 1
                value      == IF hasValue THEN Drop(nv, eq + 1)
                              ELSE IF takeNext THEN a[2] ELSE <<>>
                rest       == IF takeNext THEN Tail(Tail(a)) ELSE Tail(a)
            IN  IF numMinuses = 2 /\ Len(s) = 2
                THEN [done EXCEPT !.args = Tail(a)]
                ELSE IF Len(nv) = 0 \/ nv[1] = "-" \/ nv[1] = "="
                THEN fail("bad flag syntax")
                ELSE IF name \notin {Str_flagPackage, Str_flagDevice}
                THEN IF name \in {Str_help, Str_h}
                     THEN fail("help")
                     ELSE fail("flag provided but not defined")
                ELSE IF ~hasValue /\ ~takeNext
                THEN fail("flag needs an argument")
                ELSE IF name = Str_flagPackage
                THEN flagParse(rest, value, ds)
                ELSE flagParse(rest, pn, value)

\* exit statuses of flag.Parse under ExitOnError: 2 for an error; for
\* -h/-help 2 before Go 1.15 and 0 from Go 1.15 on
flagExit(e) == IF e = "help" THEN {0, 2} ELSE {2}

----------------------------------------------------------------------------
(* The program as a state machine *)

\* func init(), lines 34-48
defaultPackageName(a) == IF Len(a) > 1 THEN a[2] ELSE <<>>

defaultDeviceSerial(a) == IF Len(a) > 2 THEN a[3] ELSE <<>>

InitWith(ArgLists) ==
    /\ pc = "init"
    /\ osArgs \in ArgLists
    /\ packageName = <<>>
    /\ deviceSerial = <<>>
    /\ devices = <<>>
    /\ device = Nil
    /\ data = <<>>
    /\ pkgs = <<>>
    /\ pkg = Nil
    /\ stdin = <<>>
    /\ prompts = <<>>
    /\ index = Nil
    /\ called = <<>>
    /\ out = <<>>
    /\ pulled = <<>>
    /\ stages = <<>>
    /\ exitCode = Running

\* os.Exit that drops its status
Exit_NoStatus(code) == pc' = "exited" /\ exitCode' = 0

\* os.Exit(code)
Exit(code) == pc' = "exited" /\ exitCode' = code

GoInit ==
    /\ pc = "init"
    /\ packageName' = defaultPackageName(osArgs)
    /\ deviceSerial' = defaultDeviceSerial(osArgs)
    /\ pc' = "flag.Parse"
    /\ UNCHANGED <<osArgs, devices, device, data, pkgs, pkg, stdin, prompts,
                   index, called, out, pulled, stages, exitCode>>

\* main, line 61
FlagParse ==
    /\ pc = "flag.Parse"
    /\ LET r == flagParse(Tail(osArgs), packageName, deviceSerial)
       IN  /\ packageName' = r.packageName
           /\ deviceSerial' = r.deviceSerial
           /\ IF r.err = "nil"
              THEN pc' = "adb.Devices" /\ out' = out /\ exitCode' = exitCode
              ELSE /\ out' = Append(out, "Usage")
                   /\ \E code \in flagExit(r.err) : Exit(code)
    /\ UNCHANGED <<osArgs, devices, device, data, pkgs, pkg, stdin, prompts,
                   index, called, pulled, stages>>

\* main, lines 64-68; res is the result of adb.Devices()
AdbDevices(Results) ==
    /\ pc = "adb.Devices"
    /\ stages' = Append(stages, "adb.Devices")
    /\ \E res \in Results :
          IF res.err
          THEN /\ out' = Append(out, "Failed to get list of devices")
               /\ Exit(1)
               /\ devices' = devices
          ELSE /\ devices' = res.devices
               /\ pc' = "getDevice"
               /\ UNCHANGED <<out, exitCode>>
    /\ UNCHANGED <<osArgs, packageName, deviceSerial, device, data, pkgs, pkg,
                   stdin, prompts, index, called, pulled>>

\* main, lines 71-74
GetDevice(Reads) ==
    /\ pc = "getDevice"
    /\ stages' = Append(stages, "getDevice")
    /\ \E rd \in Reads :
          LET r == getDevice(devices, deviceSerial, rd)
          IN  /\ device' = r.device
              /\ out' = out \o r.out
              /\ stdin' = stdin \o r.reads
              /\ prompts' = prompts \o r.prompts
              /\ index' = IF r.reads = <<>> THEN index ELSE r.device
              /\ IF r.err = "nil"
                 THEN pc' = "getPackageList" /\ exitCode' = exitCode
                 ELSE Exit(1)
    /\ UNCHANGED <<osArgs, packageName, deviceSerial, devices, data, pkgs,
                   pkg, called, pulled>>

\* main, lines 77-80; call is the result of cmd.Call() on the device
GetPackageList(Calls) ==
    /\ pc = "getPackageList"
    /\ stages' = Append(stages, "getPackageList")
    /\ called' = Append(called, device)
    /\ \E call \in Calls :
          LET r == getPackageList(call)
          IN  /\ data' = call.data
              /\ pkgs' = r.packages
              /\ out' = out \o r.out
              /\ IF r.err = "nil"
                 THEN pc' = "getPackage" /\ exitCode' = exitCode
                 ELSE Exit(1)
    /\ UNCHANGED <<osArgs, packageName, deviceSerial, devices, device, pkg,
                   stdin, prompts, index, pulled>>

\* main, lines 83-86
GetPackage(Reads) ==
    /\ pc = "getPackage"
    /\ stages' = Append(stages, "getPackage")
    /\ \E rd \in Reads :
          LET r == getPackage(pkgs, packageName, rd)
          IN  /\ pkg' = r.pkg
              /\ out' = out \o r.out
              /\ stdin' = stdin \o r.reads
              /\ prompts' = prompts \o r.prompts
              /\ index' = IF r.reads = <<>> THEN index ELSE r.pkg
              /\ IF r.err = "nil"
                 THEN pc' = "Pull" /\ exitCode' = exitCode
                 ELSE Exit(1)
    /\ UNCHANGED <<osArgs, packageName, deviceSerial, devices, device, data,
                   pkgs, called, pulled>>

\* the pull made on the first device attached instead of the resolved one
Pull_FirstDevice ==
    /\ pc = "Pull"
    /\ stages' = Append(stages, "Pull")
    /\ LET apkName == pkgs[pkg + 1].Name \o Str_apk
       IN  pulled' = Append(pulled, [device |-> 0,
                                     src |-> pkgs[pkg + 1].Path,
                                     dst |-> apkName])
    /\ \E ok \in BOOLEAN :
          IF ok
          THEN /\ out' = out \o <<"Pulling", "Success">>
               /\ Exit(0)
          ELSE /\ out' = out \o <<"Pulling", "Failed",
                                  "Failed to pull package from device">>
               /\ Exit(1)
    /\ UNCHANGED <<osArgs, packageName, deviceSerial, devices, device, data,
                   pkgs, pkg, stdin, prompts, index, called>>

\* main, lines 89-98; ok is the outcome of device.Pull
Pull ==
    /\ pc = "Pull"
    /\ stages' = Append(stages, "Pull")
    /\ LET apkName == pkgs[pkg + 1].Name \o Str_apk
       IN  pulled' = Append(pulled, [device |-> device,
                                     src |-> pkgs[pkg + 1].Path,
                                     dst |-> apkName])
    /\ \E ok \in BOOLEAN :
          IF ok
          THEN /\ out' = out \o <<"Pulling", "Success">>
               /\ Exit(0)
          ELSE /\ out' = out \o <<"Pulling", "Failed",
                                  "Failed to pull package from device">>
               /\ Exit(1)
    /\ UNCHANGED <<osArgs, packageName, deviceSerial, devices, device, data,
                   pkgs, pkg, stdin, prompts, index, called>>

----------------------------------------------------------------------------
(* Inputs of the environment *)

\* the sequences over S of length n, and of length at most n
RECURSIVE SeqsOfLen(_, _)
SeqsOfLen(S, n) ==
    IF n = 0 THEN {<<>>}
    ELSE {Append(p, x) : p \in SeqsOfLen(S, n - 1), x \in S}

SeqsUpTo(S, n) == UNION {SeqsOfLen(S, k) : k \in 0..n}

RECURSIVE Join(_, _)
Join(ls, sep) ==
    IF ls = <<>> THEN <<>>
    ELSE IF Len(ls) = 1 THEN ls[1]
    ELSE ls[1] \o <<sep>> \o Join(Tail(ls), sep)

Prog == <<"a", "p", "p">>

\* the i-th device adb reports (i from 0): serials S0, S1, ...
Serial(i) == <<"S", Digits[i + 1]>>

Device(i) == [Serial |-> Serial(i), State |-> "device"]

RECURSIVE DeviceList(_)
DeviceList(n) ==
    IF n = 0 THEN <<>> ELSE Append(DeviceList(n - 1), Device(n - 1))

ArgLists(Tokens, n) == {<<Prog>> \o a : a \in SeqsUpTo(Tokens, n)}

Texts(Lines, n) == {Join(ls, "\n") : ls \in SeqsUpTo(Lines, n)}

Calls(Lines, n) ==
    {[err |-> FALSE, data |-> t] : t \in Texts(Lines, n)}
        \cup {[err |-> TRUE, data |-> <<>>]}

\* reader.ReadString('\n'): a line with its terminator, or an error with the
\* text read before it
Reads(Inputs) ==
    {[err |-> FALSE, input |-> i \o <<"\n">>] : i \in Inputs}
        \cup {[err |-> TRUE, input |-> i] : i \in Inputs}

DeviceResults(n) ==
    {[err |-> FALSE, devices |-> DeviceList(k)] : k \in 0..n}
        \cup {[err |-> TRUE, devices |-> <<>>]}

\* the command lines of the runs: os.Args after the program name
MainCommandLines ==
    { <<>>,
      <<<<"f">>>>,
      <<<<"f">>, <<"S", "1">>>>,
      <<<<"f">>, <<"S", "9">>>>,
      <<<<"S", "1">>>>,
      <<<<"q">>, <<"S", "0">>>>,
      <<<<"-", "d", "e", "v", "i", "c", "e", "=", "S", "0">>>>,
      <<<<"-", "d", "e", "v", "i", "c", "e", "=", "S", "9">>>>,
      <<<<"-", "p", "a", "c", "k", "a", "g", "e", "=">>, <<"-", "d", "e", "v", "i", "c", "e", "=", "S", "0">>>>,
      <<<<"-", "p", "a", "c", "k", "a", "g", "e", "=">>, <<"-", "d", "e", "v", "i", "c", "e", "=", "S", "1">>>>,
      <<<<"-", "p", "a", "c", "k", "a", "g", "e", "=">>, <<"-", "d", "e", "v", "i", "c", "e", "=", "S", "9">>>>,
      <<<<"-", "p", "a", "c", "k", "a", "g", "e", "=", "f">>, <<"-", "d", "e", "v", "i", "c", "e", "=", "S", "1">>>>,
      <<<<"-", "p", "a", "c", "k", "a", "g", "e", "=", "q">>>>,
      <<<<"f">>, <<"-", "d", "e", "v", "i", "c", "e", "=", "S", "0">>>>,
      <<<<"-", "h">>>>,
      <<<<"-", "p", "a", "c", "k", "a", "g", "e", "=", "f">>, <<"-", "h", "e", "l", "p">>>> }

MainLines ==
    { <<"p", "a", "c", "k", "a", "g", "e", ":", "/", "a", "=", "f">>,
      <<"p", "a", "c", "k", "a", "g", "e", ":", "/", "b", "=", "f">>,
      <<"p", "a", "c", "k", "a", "g", "e", ":", "/", "d", "a", "t", "a", "/", "a", "p", "p", "/", "c", "o", "m", ".", "f", "o", "o", ".", "a", "p", "k", "=", "c", "o", "m", ".", "f", "o", "o">>,
      <<"p", "a", "c", "k", "a", "g", "e", ":", "/", "d">>,
      <<"x">> }

MainInputs ==
    { <<>>,
      <<"0">>,
      <<"1">>,
      <<"2">>,
      <<"-", "1">>,
      <<" ", "+", "1", "\r">>,
      <<"x">> }

MainReads ==
    {r : r \in {[err |-> FALSE, input |-> i \o <<"\n">>] : i \in MainInputs}
                  \cup {[err |-> TRUE, input |-> <<>>]}}

MainDeviceResults == {r : r \in DeviceResults(MaxDevices)}

MainCalls == {c : c \in Calls(MainLines, MaxLines)}

MainArgLists == {<<Prog>> \o a : a \in MainCommandLines}

Init == InitWith(MainArgLists)

Next ==
    \/ GoInit
    \/ FlagParse
    \/ AdbDevices(MainDeviceResults)
    \/ GetDevice(MainReads)
    \/ GetPackageList(MainCalls)
    \/ GetPackage(MainReads)
    \/ Pull

Spec == Init /\ [][Next]_vars

----------------------------------------------------------------------------
(* init and flag.Parse alone, over a wider set of command lines *)

FlagTokens ==
    { <<"f">>,
      <<"S", "1">>,
      <<"-", "p", "a", "c", "k", "a", "g", "e", "=", "q">>,
      <<"-", "-", "p", "a", "c", "k", "a", "g", "e", "=", "q">>,
      <<"-", "d", "e", "v", "i", "c", "e", "=", "S", "0">>,
      <<"-", "d", "e", "v", "i", "c", "e">>,
      <<"-", "p", "a", "c", "k", "a", "g", "e">>,
      <<"-", "-">>,
      <<"-", "h">>,
      <<"-", "x">>,
      <<"-", "=">>,
      <<"-">> }

FlagArgLists == {a : a \in ArgLists(FlagTokens, MaxFlagArgs)}

InitFlags == InitWith(FlagArgLists)

NextFlags == GoInit \/ FlagParse

SpecFlags == InitFlags /\ [][NextFlags]_vars

----------------------------------------------------------------------------
(* getPackageList alone, over a wider set of package-manager outputs; it   *)
(* starts where main has resolved the only device attached                 *)

ParseLines ==
    { <<"p", "a", "c", "k", "a", "g", "e", ":", "/", "d", "a", "t", "a", "/", "a", "p", "p", "/", "c", "o", "m", ".", "f", "o", "o", ".", "a", "p", "k", "=", "c", "o", "m", ".", "f", "o", "o">>,
      <<" ", "\t", "p", "a", "c", "k", "a", "g", "e", ":", "/", "a", "=", "f", " ", "\r">>,
      <<"p", "a", "c", "k", "a", "g", "e", ":", "/", "a", "=", "f", "=", "g">>,
      <<"p", "a", "c", "k", "a", "g", "e", ":", "=">>,
      <<"p", "a", "c", "k", "a", "g", "e", ":", "/", "a", " ", "=", "f">>,
      <<"p", "a", "c", "k", "a", "g", "e", ":", "/", "c">>,
      <<"p", "a", "c", "k", "a", "g", "e", ":">>,
      <<"x", "p", "a", "c", "k", "a", "g", "e", ":", "/", "a", "=", "f">>,
      <<"p", "a", "c", "k", "a", "g", "e", " ", "/", "a", "=", "f">>,
      <<"P", "a", "c", "k", "a", "g", "e", ":", "/", "a", "=", "f">>,
      <<"p", "a", "c", "k", "a", "g">>,
      <<>> }

InitParse ==
    /\ pc = "getPackageList"
    /\ osArgs = <<Prog>>
    /\ packageName = <<>>
    /\ deviceSerial = <<>>
    /\ devices = DeviceList(1)
    /\ device = 0
    /\ data = <<>>
    /\ pkgs = <<>>
    /\ pkg = Nil
    /\ stdin = <<>>
    /\ prompts = <<>>
    /\ index = Nil
    /\ called = <<>>
    /\ out = <<"Device:">>
    /\ pulled = <<>>
    /\ stages = <<"adb.Devices", "getDevice">>
    /\ exitCode = Running

ParseCalls == {c : c \in Calls(ParseLines, MaxParseLines)}

NextParse == GetPackageList(ParseCalls)

SpecParse == InitParse /\ [][NextParse]_vars

----------------------------------------------------------------------------
(* readInputNumber alone, as getDevice calls it, over a wider set of       *)
(* input lines; it starts where adb has reported 0..MaxCand devices and no *)
(* serial was asked for                                                    *)

InputChars == {"0", "2", "7", "a", "-", "+", " "}

LongInputs ==
    { <<"a", "b", "c">>,
            <<"\t", "4", "\r">>,
            <<"0", "0", "7">>,
            <<"-", "0">>,
            <<"9", "9", "9", "9", "9", "9", "9", "9", "9">>,
            <<"1", "0", "0", "0", "0", "0", "0", "0", "0", "0">>,
            <<"9", "2", "2", "3", "3", "7", "2", "0", "3", "6", "8", "5", "4", "7", "7", "5", "8", "0", "7">>,
            <<"9", "2", "2", "3", "3", "7", "2", "0", "3", "6", "8", "5", "4", "7", "7", "5", "8", "0", "8">>,
            <<"-", "9", "2", "2", "3", "3", "7", "2", "0", "3", "6", "8", "5", "4", "7", "7", "5", "8", "0", "8">>,
            <<"-", "9", "2", "2", "3", "3", "7", "2", "0", "3", "6", "8", "5", "4", "7", "7", "5", "8", "0", "9">> }

InputLines == {i : i \in SeqsUpTo(InputChars, MaxInputLen) \cup LongInputs}

InitInput ==
    /\ pc = "getDevice"
    /\ osArgs = <<Prog>>
    /\ packageName = <<>>
    /\ deviceSerial = <<>>
    /\ devices \in {DeviceList(n) : n \in 0..MaxCand}
    /\ device = Nil
    /\ data = <<>>
    /\ pkgs = <<>>
    /\ pkg = Nil
    /\ stdin = <<>>
    /\ prompts = <<>>
    /\ index = Nil
    /\ called = <<>>
    /\ out = <<>>
    /\ pulled = <<>>
    /\ stages = <<"adb.Devices">>
    /\ exitCode = Running

InputReads == {r : r \in Reads(InputLines)}

NextInput == GetDevice(InputReads)

SpecInput == InitInput /\ [][NextInput]_vars

----------------------------------------------------------------------------
(* Vocabulary of the properties *)

Range(s) == {s[i] : i \in 1..Len(s)}

Count(s, x) == Cardinality({i \in 1..Len(s) : s[i] = x})

Last(s) == s[Len(s)]

IsPrefix(s, t) == Len(s) <= Len(t) /\ SubSeq(t, 1, Len(s)) = s

Ran(stage) == stage \in Range(stages)

PromptedDevice == "Which device?" \in Range(out)

PromptedPackage == "Which package?" \in Range(out)

InputErrors == {"Input cancelled", "Invalid input", "Input out of range"}

\* the reads of standard input made by getDevice and by getPackage; each
\* prompt is followed by exactly one read
ReadsOfDevice == Count(out, "Which device?")

ReadsOfPackage == Len(stdin) - ReadsOfDevice

SerialMatches == \E i \in 1..Len(devices) : devices[i].Serial = deviceSerial

NameMatches == \E i \in 1..Len(pkgs) : pkgs[i].Name = packageName

----------------------------------------------------------------------------
----------------------------------------------------------------------------
(* C2: for every device list, a non-empty serial equal to no candidate's   *)
(* Serial makes getDevice warn, not fail for the mismatch, and fall back   *)
(* to the numbered listing and a read of the user's choice.  As stated it  *)
(* fails for a one-element list, where the sole device is taken instead.   *)
C2_AsClaimed ==
    (Ran("getDevice") /\ deviceSerial # <<>> /\ ~SerialMatches) =>
        /\ "Warning: Could not locate device." \in Range(out)
        /\ device = Nil => Last(out) \in InputErrors
        /\ PromptedDevice /\ ReadsOfDevice = 1

(* C2 amended: a non-empty serial equal to no candidate's Serial makes     *)
(* getDevice warn once and go on as if no serial had been asked for: a     *)
(* sole device is returned without prompting, any other list is listed and *)
(* prompted for with range [0, len-1]; getDevice then fails only for the   *)
(* input read.                                                             *)
C2_UnmatchedSerial ==
    (Ran("getDevice") /\ deviceSerial # <<>> /\ ~SerialMatches) =>
        /\ Count(out, "Warning: Could not locate device.") = 1
        /\ IF Len(devices) = 1
           THEN device = 0 /\ ~PromptedDevice /\ ReadsOfDevice = 0
           ELSE /\ PromptedDevice /\ ReadsOfDevice = 1 /\ Len(stdin) >= 1
                /\ Count(out, "Devices:") = 1
                /\ prompts[1] = [min |-> 0, max |-> Len(devices) - 1]
                /\ device = Nil =>
                      /\ Last(out) \in InputErrors
                      /\ readInputNumber(stdin[1], 0, Len(devices) - 1).err
                            = Last(out)
                /\ device # Nil =>
                      device = readInputNumber(stdin[1], 0,
                                               Len(devices) - 1).index

C2_Witness ==
    /\ Ran("getDevice") /\ deviceSerial # <<>> /\ ~SerialMatches
    /\ Len(devices) = 2 /\ PromptedDevice /\ device = 1

----------------------------------------------------------------------------
(* C3: a non-empty package name equal to no candidate's Name makes         *)
(* getPackage fail with "could not locate package" without prompting or    *)
(* reading, and the run ends with status 1 and no pull; a name equal to a  *)
(* candidate's Name returns the first such candidate without prompting.    *)
C3_RequestedPackage ==
    (Ran("getPackage") /\ packageName # <<>>) =>
        /\ ~PromptedPackage /\ ReadsOfPackage = 0
        /\ IF NameMatches
           THEN /\ pkg \in 0..(Len(pkgs) - 1)
                /\ pkgs[pkg + 1].Name = packageName
                /\ \A i \in 1..pkg : pkgs[i].Name # packageName
           ELSE /\ pkg = Nil
                /\ Last(out) = "Could not locate package"
                /\ pc = "exited" /\ exitCode = 1
                /\ pulled = <<>> /\ ~Ran("Pull")

C3_WitnessFirstMatch ==
    /\ Ran("getPackage") /\ packageName # <<>>
    /\ Len(pkgs) = 2 /\ pkgs[1].Name = packageName
    /\ pkgs[2].Name = packageName /\ pkgs[1].Path # pkgs[2].Path
    /\ pkg = 0 /\ pc = "Pull"

C3_Witness ==
    /\ Ran("getPackage") /\ packageName # <<>> /\ ~NameMatches
    /\ Len(pkgs) = 2 /\ exitCode = 1

----------------------------------------------------------------------------
(* What a line of input denotes, read off its characters *)

Unsigned(t) == IF t # <<>> /\ t[1] \in {"+", "-"} THEN Tail(t) ELSE t

\* an optional sign followed by one or more decimal digits
IsBase10Integer(t) ==
    /\ Unsigned(t) # <<>>
    /\ \A i \in 1..Len(Unsigned(t)) : IsDigit(Unsigned(t)[i])

RECURSIVE PlaceValue(_)
\* the digits weighted by their place, from the units up
PlaceValue(ds) ==
    IF ds = <<>> THEN 0
    ELSE PlaceValue(SubSeq(ds, 1, Len(ds) - 1)) * 10 + DigitVal(Last(ds))

\* the integer t denotes; magnitudes of 10^9 and more are given as BigInt
DecimalValue(t) ==
    LET sig == StripZeros(Unsigned(t))
        m   == IF Len(sig) > 9 THEN BigInt ELSE PlaceValue(sig)
    IN  IF t[1] = "-" THEN -m ELSE m

\* decimal digits of the magnitude of the smallest int, 1<<(intSize-1)
MinIntDigits == [MaxIntDigits EXCEPT ![Len(MaxIntDigits)] = "8"]

\* the integer t denotes is representable in an int
FitsInt(t) ==
    ~DigitsExceed(StripZeros(Unsigned(t)),
                  IF t[1] = "-" THEN MinIntDigits ELSE MaxIntDigits)

\* readInputNumber, called by getDevice, failed with e and ended the run
InputFailed(e) ==
    /\ Last(out) = e
    /\ Cardinality({i \in 1..Len(out) : out[i] \in InputErrors}) = 1
    /\ index = -1 /\ device = Nil
    /\ pc = "exited" /\ exitCode = 1

\* readInputNumber, called by getDevice, returned n
InputReturned(n) ==
    /\ Range(out) \cap InputErrors = {}
    /\ index = n /\ device = n
    /\ pc = "getPackageList" /\ exitCode = Running

----------------------------------------------------------------------------
(* C4: readInputNumber classifies a line by tests in this order: a read    *)
(* error or a line empty after trimming is "input cancelled"; else a line  *)
(* that is not a base-10 integer is "invalid input"; else an integer       *)
(* outside [min, max] is "input out of range"; else the integer is         *)
(* returned; a failure returns at once with no second prompt.  As stated   *)
(* it fails for an integer too large for an int, which is "invalid input". *)
C4_AsClaimed ==
    (Ran("getDevice") /\ PromptedDevice) =>
        LET rd == stdin[1]
            t  == TrimSpace(rd.input)
            r  == prompts[1]
        IN  /\ Len(stdin) = 1 /\ Len(prompts) = 1 /\ ReadsOfDevice = 1
            /\ IF rd.err \/ t = <<>> THEN InputFailed("Input cancelled")
               ELSE IF ~IsBase10Integer(t) THEN InputFailed("Invalid input")
               ELSE IF DecimalValue(t) < r.min \/ DecimalValue(t) > r.max
               THEN InputFailed("Input out of range")
               ELSE InputReturned(DecimalValue(t))

(* C4 amended: as claimed, but the second test is that the line is not a   *)
(* base-10 integer (optional sign, then digits) or denotes an integer that *)
(* does not fit an int: both are "invalid input".                          *)
C4_InputClasses ==
    (Ran("getDevice") /\ PromptedDevice) =>
        LET rd == stdin[1]
            t  == TrimSpace(rd.input)
            r  == prompts[1]
        IN  /\ Len(stdin) = 1 /\ Len(prompts) = 1 /\ ReadsOfDevice = 1
            /\ r = [min |-> 0, max |-> Len(devices) - 1]
            /\ IF rd.err \/ t = <<>> THEN InputFailed("Input cancelled")
               ELSE IF ~IsBase10Integer(t) \/ ~FitsInt(t)
               THEN InputFailed("Invalid input")
               ELSE IF DecimalValue(t) < r.min \/ DecimalValue(t) > r.max
               THEN InputFailed("Input out of range")
               ELSE InputReturned(DecimalValue(t))

C4_Witness ==
    /\ Ran("getDevice") /\ PromptedDevice
    /\ stdin = <<[err |-> FALSE, input |-> <<"2", "\n">>]>>
    /\ prompts = <<[min |-> 0, max |-> 4]>>
    /\ index = 2

C4_WitnessTooLarge ==
    /\ Ran("getDevice") /\ PromptedDevice
    /\ ~stdin[1].err /\ IsBase10Integer(TrimSpace(stdin[1].input))
    /\ ~FitsInt(TrimSpace(stdin[1].input))
    /\ Last(out) = "Invalid input"

----------------------------------------------------------------------------
(* What a package-manager output denotes, read off its characters *)

\* the positions of the line breaks of d, with both ends of d
Breaks(d) == {0, Len(d) + 1} \cup {i \in 1..Len(d) : d[i] = "\n"}

NextBreak(d, b) ==
    CHOOSE n \in Breaks(d) : n > b /\ \A m \in Breaks(d) : m > b => n <= m

RECURSIVE LinesFrom(_, _)
\* the lines of d that start after the break b
LinesFrom(d, b) ==
    IF b = Len(d) + 1 THEN <<>>
    ELSE <<SubSeq(d, b + 1, NextBreak(d, b) - 1)>>
            \o LinesFrom(d, NextBreak(d, b))

\* l from its first to its last character that is not white space
Trimmed(l) ==
    LET ns == {i \in 1..Len(l) : ~IsSpace(l[i])}
    IN  IF ns = {} THEN <<>>
        ELSE SubSeq(l, CHOOSE a \in ns : \A i \in ns : a <= i,
                       CHOOSE b \in ns : \A i \in ns : b >= i)

Prefixed(t) == Len(t) >= 8 /\ \A i \in 1..8 : t[i] = Str_package[i]

WellFormed(t) == Prefixed(t) /\ \E k \in 9..Len(t) : t[k] = "="

FirstEq(t) ==
    CHOOSE k \in 9..Len(t) : t[k] = "=" /\ \A j \in 9..(k - 1) : t[j] # "="

RecordOf(t) ==
    [Name |-> SubSeq(t, FirstEq(t) + 1, Len(t)),
     Path |-> SubSeq(t, 9, FirstEq(t) - 1)]

TrimmedLines(d) ==
    LET ls == LinesFrom(d, 0) IN [i \in 1..Len(ls) |-> Trimmed(ls[i])] \o <<>>

ExpectedRecords(d) ==
    LET wf == SelectSeq(TrimmedLines(d), WellFormed)
    IN  [i \in 1..Len(wf) |-> RecordOf(wf[i])] \o <<>>

Malformed(t) == Prefixed(t) /\ ~WellFormed(t)

MalformedLines(d) == SelectSeq(TrimmedLines(d), Malformed)

CallFailed == "Failed list root" \in Range(out)

----------------------------------------------------------------------------
(* C5: the records getPackageList builds are exactly, in line order, one   *)
(* per line that after trimming starts with "package:" and has an "="      *)
(* after that prefix, with Path the text between the prefix and the first  *)
(* "=" and Name everything after it; a line without the prefix gives no    *)
(* record and no error; a prefixed line without "=" gives no record and    *)
(* one warning, and does not end the run.                                  *)
C5_ParsedRecords ==
    (Ran("getPackageList") /\ ~CallFailed) =>
        /\ pkgs = ExpectedRecords(data)
        /\ Count(out, "Bad package manager response")
              = Len(MalformedLines(data))
        /\ Len(out) = 1 + Len(MalformedLines(data))
                        + (IF ExpectedRecords(data) = <<>> THEN 1 ELSE 0)
        /\ ExpectedRecords(data) # <<>> =>
              pc = "getPackage" /\ exitCode = Running

C5_Witness ==
    /\ Ran("getPackageList") /\ ~CallFailed
    /\ data = <<" ", "\t">> \o Str_package \o <<"/", "a", "=", "f", " ", "\r",
                 "\n">> \o Str_package \o <<"/", "a", "=", "f", "=", "g">>
    /\ pkgs = <<Package(<<"f">>, <<"/", "a">>),
                Package(<<"f", "=", "g">>, <<"/", "a">>)>>

C5_WitnessMalformed ==
    /\ Ran("getPackageList") /\ ~CallFailed
    /\ Len(MalformedLines(data)) = 1 /\ Len(pkgs) = 1 /\ pc = "getPackage"

----------------------------------------------------------------------------
(* C6: a package-manager output that yields no record (no line, only lines *)
(* without the prefix, or only malformed prefixed lines) makes             *)
(* getPackageList fail with "no packages found" and ends the run before    *)
(* any package prompt; the list handed to getPackage is never empty.       *)
C6_NoPackages ==
    /\ (Ran("getPackageList") /\ ~CallFailed
          /\ ExpectedRecords(data) = <<>>) =>
            /\ Last(out) = "No packages found"
            /\ pc = "exited" /\ exitCode = 1
            /\ ~PromptedPackage /\ ~Ran("getPackage") /\ pulled = <<>>
    /\ (pc = "getPackage" \/ Ran("getPackage")) => Len(pkgs) > 0

C6_Witness ==
    /\ Ran("getPackageList") /\ ~CallFailed
    /\ Len(MalformedLines(data)) = 1 /\ Len(TrimmedLines(data)) = 2
    /\ pkgs = <<>> /\ exitCode = 1

----------------------------------------------------------------------------
(* C7: the stages run in the order enumerate devices, resolve device,      *)
(* enumerate packages, resolve package, pull, each at most once; the first *)
(* stage that fails ends the process with status 1 and no later stage or   *)
(* retry; the process exits with status 0 only if the pull was invoked and *)
(* succeeded.  As stated it fails for -h, on which flag.Parse ends the     *)
(* process with status 0 when built with Go 1.15 or later.                 *)
StageOrder == <<"adb.Devices", "getDevice", "getPackageList", "getPackage",
                "Pull">>

FatalTags ==
    InputErrors \cup {"Failed to get list of devices",
                      "Failed to retrieve packages", "No packages found",
                      "Could not locate package",
                      "Failed to pull package from device"}

\* the stage that prints the fatal line last printed
FailedStage ==
    CASE Last(out) = "Failed to get list of devices" -> "adb.Devices"
      [] Last(out) \in {"Failed to retrieve packages", "No packages found"}
            -> "getPackageList"
      [] Last(out) = "Could not locate package" -> "getPackage"
      [] Last(out) = "Failed to pull package from device" -> "Pull"
      [] Last(out) \in InputErrors ->
            IF PromptedPackage THEN "getPackage" ELSE "getDevice"

StagesInOrder ==
    /\ IsPrefix(stages, StageOrder)
    /\ pc \notin {"init", "flag.Parse", "exited"} =>
          /\ exitCode = Running
          /\ Range(out) \cap FatalTags = {}
          /\ pc = StageOrder[Len(stages) + 1]
    /\ Range(out) \cap FatalTags # {} =>
          /\ pc = "exited" /\ exitCode = 1
          /\ Cardinality({i \in 1..Len(out) : out[i] \in FatalTags}) = 1
          /\ Last(out) \in FatalTags
          /\ Last(stages) = FailedStage
    /\ Len(pulled) <= 1
    /\ pulled # <<>> <=> Ran("Pull")

PullSucceeded ==
    stages = StageOrder /\ Len(pulled) = 1 /\ Last(out) = "Success"

C7_AsClaimed ==
    /\ StagesInOrder
    /\ exitCode = 0 => PullSucceeded

(* C7 amended: as claimed, but the process also exits with status 0 when   *)
(* flag.Parse met -h or -help and printed the usage, before any stage ran. *)
C7_StageOrder ==
    /\ StagesInOrder
    /\ exitCode = 0 => \/ PullSucceeded
                       \/ stages = <<>> /\ out = <<"Usage">>

C7_Witness ==
    /\ exitCode = 0 /\ PullSucceeded /\ Len(stdin) = 2

C7_WitnessFailure ==
    /\ exitCode = 1 /\ Last(stages) = "getDevice" /\ Last(out) \in InputErrors

----------------------------------------------------------------------------
(* C8: after initialization the requested package is the value of the      *)
(* -package flag if present, else the first positional argument if         *)
(* present, else empty; the requested device is the value of the -device   *)
(* flag if present, else the second positional argument if present, else   *)
(* empty; a flag token for one setting is never the value of the other.    *)
(* The flags present and the positional arguments are those the flag       *)
(* package finds: flag.Parse started from unset values, and flag.Args().   *)
Unset == <<"unset">>

Parsed == flagParse(Tail(osArgs), Unset, Unset)

ClaimedPackageName ==
    IF Parsed.packageName # Unset THEN Parsed.packageName
    ELSE IF Len(Parsed.args) >= 1 THEN Parsed.args[1]
    ELSE <<>>

ClaimedDeviceSerial ==
    IF Parsed.deviceSerial # Unset THEN Parsed.deviceSerial
    ELSE IF Len(Parsed.args) >= 2 THEN Parsed.args[2]
    ELSE <<>>

C8_AsClaimed ==
    pc = "adb.Devices" =>
        /\ packageName = ClaimedPackageName
        /\ deviceSerial = ClaimedDeviceSerial

----------------------------------------------------------------------------
(* C9: whenever the pull is invoked it is invoked on the device getDevice  *)
(* resolved and the package list was queried on, its source is the Path of *)
(* the resolved Package record and its destination that record's Name      *)
(* followed by ".apk", the record being one parsed from that device's      *)
(* package list.                                                           *)
ExpectedDevice ==
    IF deviceSerial # <<>> /\ SerialMatches
    THEN (CHOOSE i \in 1..Len(devices) :
             /\ devices[i].Serial = deviceSerial
             /\ \A j \in 1..(i - 1) : devices[j].Serial # deviceSerial) - 1
    ELSE IF Len(devices) = 1 THEN 0
    ELSE DecimalValue(TrimSpace(stdin[1].input))

C9_PullArguments ==
    pulled # <<>> =>
        /\ Len(pulled) = 1
        /\ device = ExpectedDevice
        /\ device \in 0..(Len(devices) - 1)
        /\ called = <<device>>
        /\ pulled[1].device = device
        /\ pkg \in 0..(Len(ExpectedRecords(data)) - 1)
        /\ pulled[1].src = ExpectedRecords(data)[pkg + 1].Path
        /\ pulled[1].dst = ExpectedRecords(data)[pkg + 1].Name \o Str_apk

C9_Witness ==
    /\ pulled # <<>>
    /\ Len(devices) = 2
    /\ data = <<"p", "a", "c", "k", "a", "g", "e", ":", "/", "d", "a", "t", "a", "/", "a", "p", "p", "/", "c", "o", "m", ".", "f", "o", "o", ".", "a", "p", "k", "=", "c", "o", "m", ".", "f", "o", "o">>
    /\ stdin[1] = [err |-> FALSE, input |-> <<"1", "\n">>]
    /\ pulled = <<[device |-> 1,
                   src |-> <<"/", "d", "a", "t", "a", "/", "a", "p", "p", "/", "c", "o", "m", ".", "f", "o", "o", ".", "a", "p", "k">>,
                   dst |-> <<"c", "o", "m", ".", "f", "o", "o", ".", "a", "p", "k">>]>>

----------------------------------------------------------------------------
(* C10: an index used to select from a candidate list lies in              *)
(* [0, len-1], for every input and every list length; with an empty device *)
(* list (prompt range [0, -1]) no input is accepted, no element is indexed *)
(* and the run ends with status 1 without a device command or a pull.      *)
C10_IndexInRange ==
    /\ device # Nil => 0 <= device /\ device <= Len(devices) - 1
    /\ pkg # Nil => 0 <= pkg /\ pkg <= Len(pkgs) - 1
    /\ index # -1 =>
          Last(prompts).min <= index /\ index <= Last(prompts).max
    /\ (Ran("getDevice") /\ devices = <<>>) =>
          /\ prompts = <<[min |-> 0, max |-> -1]>>
          /\ Len(stdin) = 1
          /\ device = Nil /\ index = -1
          /\ Last(out) \in InputErrors
          /\ pc = "exited" /\ exitCode = 1
          /\ called = <<>> /\ pulled = <<>>

C10_Witness ==
    /\ Ran("getDevice") /\ devices = <<>>
    /\ stdin = <<[err |-> FALSE, input |-> <<"0", "\n">>]>>
    /\ Last(out) = "Input out of range"

====
